---------------------------- MODULE Spec2Model ----------------------------
(***************************************************************************)
(* A model of the order utilities of the binance bot:                      *)
(*   - the Order class and the Backtester of                               *)
(*     tests/backtesting/test_strategies.py (replay of a seeded OCO pair;  *)
(*     the constructor over every order type; peer links over three        *)
(*     orders),                                                            *)
(*   - place_simulated_oco_order of src/strategies/oco.py (two placements  *)
(*     and a compensating cancel against the exchange gateway),            *)
(*   - OrderValidator.validate_order_params of src/validation.py,          *)
(*   - main() of src/main.py with the order functions and strategies it    *)
(*     calls (main.py imports execute_twap_strategy from                   *)
(*     src.strategies.twap; the function is in src/advanced/twap.py).      *)
(*                                                                         *)
(* Units.  Prices and cash of the replay are integers in hundredths of a   *)
(* currency unit (100.00 is 10000); every tick price is a whole number of  *)
(* units, so that price * 1.05 and price * 0.98 are exact.  Timestamps are *)
(* positive integers.  Python's None is the integer None in numeric        *)
(* fields.                                                                 *)
(***************************************************************************)
EXTENDS Integers, Sequences, FiniteSets, TLC

VARIABLES
    \* ---- Order objects (test_strategies.py, class Order) ----
    orders,         \* order id -> the Order object's attributes
    lastOp,         \* the last method called on an Order: [op, o, pre]
    ctor,           \* the last Order(...) call: its arguments and how it ended
    \* ---- Backtester (test_strategies.py, class Backtester) ----
    feed,           \* data['Execution Price'], the replayed prices
    open,           \* Backtester._orders, a list of order ids
    cash,           \* Backtester.cash
    position_size,  \* Backtester.position_size
    trade_log,      \* Backtester.trade_log
    pc,             \* position in Backtester.run / print_results
    i,              \* index of the tick being processed (1-based)
    j,              \* index in the list iterated by "for order in self._orders"
    report,         \* what print_results computed
    \* ---- place_simulated_oco_order (strategies/oco.py) ----
    oco_args,       \* the call's arguments
    oco_pc,         \* position in place_simulated_oco_order
    gw_calls,       \* the gateway calls made so far, with their outcomes
    gw_live,        \* ids of the orders live at the exchange
    tp_order,       \* the local tp_order
    orders_placed,  \* the local orders_placed
    oco_result,     \* how the call ended: return value or exception
    oco_log,        \* the log records and CRITICAL prints emitted
    \* ---- OrderValidator (validation.py) ----
    exchange_info,  \* OrderValidator.exchange_info
    val_pc,         \* "new", "ready" (constructed) or "validated"
    val_in,         \* the arguments of the last validate_order_params call
    val_out,        \* what that call returned and logged
    \* ---- main() (main.py) ----
    main_args,      \* the parsed command line
    main_pc,        \* position in main() and in the strategy it calls
    main_loc        \* the locals of the running twap / grid loop

orderVars  == <<orders, lastOp>>
replayVars == <<feed, open, cash, position_size, trade_log, pc, i, j, report>>
ocoVars == <<oco_args, oco_pc, gw_calls, gw_live, tp_order, orders_placed,
             oco_result, oco_log>>
valVars == <<exchange_info, val_pc, val_in, val_out>>
mainVars == <<main_args, main_pc, main_loc>>
\* everything outside the Order objects and the Backtester
extVars == <<ctor, ocoVars, valVars, mainVars>>
vars == <<orders, lastOp, ctor, feed, open, cash, position_size, trade_log, pc, i, j,
          report, oco_args, oco_pc, gw_calls, gw_live, tp_order, orders_placed,
          oco_result, oco_log, exchange_info, val_pc, val_in, val_out,
          main_args, main_pc, main_loc>>

-----------------------------------------------------------------------------
(* Bounds *)

\* the longest feed replayed
MaxTicks == 4
\* the largest timestamp handed to a direct update / cancel / fill call
MaxTime == 1
\* the largest order id the gateway hands out
MaxId == 3
\* the largest quantity validated, in units of 0.0001
MaxQtyUnits == 70

-----------------------------------------------------------------------------
(* class Order *)

\* Python's None in a numeric attribute (prices, timestamps and ids are > 0)
None == -1

\* Order.__init__: the attributes of a freshly constructed order
Order(order_type, side, quantity, price, trigger_price) ==
    [ order_type    |-> order_type,
      side          |-> side,
      quantity      |-> quantity,
      price         |-> price,
      trigger_price |-> trigger_price,
      status        |-> "PENDING",
      created_at    |-> None,
      filled_at     |-> None,
      filled_price  |-> None,
      oco_peer      |-> None ]

\* Order._validate: TRUE when the constructor does not raise ValueError
ValidateOk(order_type, price, trigger_price) ==
    /\ ~(order_type \in {"LIMIT", "STOP_LIMIT"} /\ price = None)
    /\ ~(order_type = "STOP_LIMIT" /\ trigger_price = None)

\* str.upper() on the order types and sides tried (Order.__init__)
upper(s) ==
    CASE s = "limit" -> "LIMIT"
      [] s = "stop_limit" -> "STOP_LIMIT"
      [] s = "sell" -> "SELL"
      [] s = "buy" -> "BUY"
      [] OTHER -> s

\* no Order(...) call has been made
NoCtor ==
    [ called |-> FALSE, raised |-> FALSE,
      args |-> [ order_type |-> "", side |-> "", price |-> None,
                 trigger_price |-> None ] ]
CtorIdle == ctor = NoCtor

is_buy(o)  == o.side = "BUY"
is_sell(o) == o.side = "SELL"
is_done(o) == o.status \in {"FILLED", "CANCELLED"}

\* a link that sets the peer of self only
link_oco_peer_one_way(ords, self, peer) ==
    [ords EXCEPT ![self].oco_peer = peer]

\* Order.link_oco_peer: self.oco_peer = peer; peer.oco_peer = self
link_oco_peer(ords, self, peer) ==
    [ords EXCEPT ![self].oco_peer = peer, ![peer].oco_peer = self]

\* a cancel that forgets the is_done guard
cancel_unguarded(ords, self, timestamp) ==
    [ords EXCEPT ![self].status = "CANCELLED"]

\* a cancel that only cancels an ACTIVE order
cancel_only_active(ords, self, timestamp) ==
    IF ords[self].status # "ACTIVE"
    THEN ords
    ELSE [ords EXCEPT ![self].status = "CANCELLED"]

\* Order.cancel
cancel(ords, self, timestamp) ==
    IF is_done(ords[self])
    THEN ords
    ELSE [ords EXCEPT ![self].status = "CANCELLED"]

\* a fill that does not cancel the peer
fill_no_cascade(ords, self, timestamp, fill_price) ==
    IF ords[self].status = "FILLED"
    THEN ords
    ELSE [ords EXCEPT ![self].status = "FILLED",
                      ![self].filled_at = timestamp,
                      ![self].filled_price = fill_price]

\* Order.fill: marks the order FILLED and cancels its peer in the same call
fill(ords, self, timestamp, fill_price) ==
    IF ords[self].status = "FILLED"
    THEN ords
    ELSE LET filled == [ords EXCEPT ![self].status = "FILLED",
                                    ![self].filled_at = timestamp,
                                    ![self].filled_price = fill_price]
         IN  IF filled[self].oco_peer # None
             THEN cancel(filled, filled[self].oco_peer, timestamp)
             ELSE filled

\* an update that forgets the is_done guard
update_unguarded(ords, self, timestamp, current_price) ==
    LET o == ords[self]
        created == IF o.created_at = None
                   THEN [ords EXCEPT ![self].created_at = timestamp]
                   ELSE ords
        is_active == o.status = "ACTIVE" \/ o.order_type = "LIMIT"
    IN  IF is_active /\ ( (is_buy(o) /\ current_price <= o.price)
                          \/ (is_sell(o) /\ current_price >= o.price) )
        THEN fill(created, self, timestamp, current_price)
        ELSE created

\* an update that fills a stop-limit order at the price that triggers it
update_fill_on_trigger(ords, self, timestamp, current_price) ==
    IF is_done(ords[self])
    THEN ords
    ELSE
      LET o == ords[self]
          created == IF o.created_at = None
                     THEN [ords EXCEPT ![self].created_at = timestamp]
                     ELSE ords
          triggered ==
              /\ o.order_type = "STOP_LIMIT"
              /\ o.status = "PENDING"
              /\ \/ is_buy(o) /\ current_price >= o.trigger_price
                 \/ is_sell(o) /\ current_price <= o.trigger_price
          is_active == o.status = "ACTIVE" \/ o.order_type = "LIMIT"
      IN  IF triggered
             \/ (is_active /\ ( (is_buy(o) /\ current_price <= o.price)
                                \/ (is_sell(o) /\ current_price >= o.price) ))
          THEN fill(created, self, timestamp, current_price)
          ELSE created

\* an update that fills a Sell at or below its limit price
update_sell_at_or_below(ords, self, timestamp, current_price) ==
    IF is_done(ords[self])
    THEN ords
    ELSE
      LET o == ords[self]
          created == IF o.created_at = None
                     THEN [ords EXCEPT ![self].created_at = timestamp]
                     ELSE ords
          triggered ==
              /\ o.order_type = "STOP_LIMIT"
              /\ o.status = "PENDING"
              /\ \/ is_buy(o) /\ current_price >= o.trigger_price
                 \/ is_sell(o) /\ current_price <= o.trigger_price
          activated == IF triggered
                       THEN [created EXCEPT ![self].status = "ACTIVE"]
                       ELSE created
          a == activated[self]
          is_active == a.status = "ACTIVE" \/ a.order_type = "LIMIT"
      IN  IF is_active /\ ( (is_buy(a) /\ current_price <= a.price)
                            \/ (is_sell(a) /\ current_price <= a.price) )
          THEN fill(activated, self, timestamp, current_price)
          ELSE activated

\* Order.update: one price observation
update(ords, self, timestamp, current_price) ==
    IF is_done(ords[self])
    THEN ords
    ELSE
      LET o == ords[self]
          created == IF o.created_at = None
                     THEN [ords EXCEPT ![self].created_at = timestamp]
                     ELSE ords
          triggered ==
              /\ o.order_type = "STOP_LIMIT"
              /\ o.status = "PENDING"
              /\ \/ is_buy(o) /\ current_price >= o.trigger_price
                 \/ is_sell(o) /\ current_price <= o.trigger_price
          activated == IF triggered
                       THEN [created EXCEPT ![self].status = "ACTIVE"]
                       ELSE created
          a == activated[self]
          is_active == a.status = "ACTIVE" \/ a.order_type = "LIMIT"
      IN  IF is_active /\ ( (is_buy(a) /\ current_price <= a.price)
                            \/ (is_sell(a) /\ current_price >= a.price) )
          THEN fill(activated, self, timestamp, current_price)
          ELSE activated

-----------------------------------------------------------------------------
(* decimal.Decimal: a value c / 10^e is the record [c |-> c, e |-> e]; e is  *)
(* the number of decimal places the Decimal carries (minus its exponent).   *)

RECURSIVE Pow10(_)
Pow10(k) == IF k = 0 THEN 1 ELSE 10 * Pow10(k - 1)

Max(a, b) == IF a >= b THEN a ELSE b
Abs(x) == IF x < 0 THEN -x ELSE x

Dec(c, e) == [c |-> c, e |-> e]

\* the coefficient of d written with e >= d.e decimal places
Scaled(d, e) == d.c * Pow10(e - d.e)

\* Decimal.__lt__, __gt__, and comparison with 0
DecLt(a, b) == Scaled(a, Max(a.e, b.e)) < Scaled(b, Max(a.e, b.e))
DecGt(a, b) == DecLt(b, a)
DecIsZero(d) == d.c = 0

\* Decimal.__sub__ and __add__: exact, the result carries the longer scale
DecSub(a, b) ==
    Dec(Scaled(a, Max(a.e, b.e)) - Scaled(b, Max(a.e, b.e)), Max(a.e, b.e))
DecAdd(a, b) ==
    Dec(Scaled(a, Max(a.e, b.e)) + Scaled(b, Max(a.e, b.e)), Max(a.e, b.e))

\* Decimal.__mod__ (divisor not 0): the remainder has the dividend's sign
DecMod(a, b) ==
    LET m == Max(a.e, b.e)
        x == Scaled(a, m)
        y == Scaled(b, m)
        r == Abs(x) % Abs(y)
    IN  Dec(IF x < 0 THEN -r ELSE r, m)

\* d.quantize(step, rounding=ROUND_DOWN): d rounded towards zero to the
\* number of decimal places of step
Quantize(d, step) ==
    IF step.e >= d.e
    THEN Dec(Scaled(d, step.e), step.e)
    ELSE LET q == Abs(d.c) \div Pow10(d.e - step.e)
         IN  Dec(IF d.c < 0 THEN -q ELSE q, step.e)

\* the digits str() prints for the float n / 10^places: trailing zeros are
\* dropped, one decimal place is kept
RECURSIVE Shortest(_, _)
Shortest(n, places) ==
    IF places > 1 /\ n % 10 = 0
    THEN Shortest(n \div 10, places - 1)
    ELSE Dec(n, places)

\* Decimal(str(x)) for the float x = n / 10^places
DecimalOfFloat(n, places) == Shortest(n, places)

-----------------------------------------------------------------------------
(* class OrderValidator (validation.py) *)

\* decimal places of the quantities and of the prices tried
QtyPlaces == 4
PricePlaces == 2

\* a filter that the symbol's filter list does not hold
NoLotSize == [present |-> FALSE, minQty |-> Dec(0, 0), maxQty |-> Dec(0, 0),
              stepSize |-> Dec(1, 0)]
NoPriceFilter == [present |-> FALSE, minPrice |-> Dec(0, 0),
                  maxPrice |-> Dec(0, 0), tickSize |-> Dec(1, 0)]

\* LOT_SIZE filters as the exchange publishes them: "0.001", "0.002",
\* "0.006", "1000", "0.001", "0.005", "0.00100"
LotSizes ==
    [ present : {TRUE},
      minQty : {Dec(1, 3), Dec(2, 3)},
      maxQty : {Dec(6, 3), Dec(1000, 0)},
      stepSize : {Dec(1, 3), Dec(5, 3), Dec(100, 5)} ]

\* PRICE_FILTER filters: "0.05", "0.10", "0" (no upper bound), "0.20",
\* "0.05", "0.10"
PriceFilters ==
    [ present : {TRUE},
      minPrice : {Dec(5, 2), Dec(10, 2)},
      maxPrice : {Dec(0, 0), Dec(20, 2)},
      tickSize : {Dec(5, 2), Dec(10, 2)} ]

\* the symbols asked about; the exchange lists only the first
KnownSymbol == "BTCUSDT"
Symbols == {"BTCUSDT", "XYZUSDT"}

\* self.exchange_info = None
NoExchangeInfo == [available |-> FALSE, lot |-> NoLotSize, price |-> NoPriceFilter]

\* what futures_exchange_info() can return: the filters of the listed symbol
ExchangeInfos ==
    [ available : {TRUE},
      lot : LotSizes \cup {NoLotSize},
      price : PriceFilters \cup {NoPriceFilter} ]

\* the quantities (floats of up to four decimal places) and the optional
\* prices (None, or a float of two decimal places) validated
Quantities == 0..MaxQtyUnits
NoPrice == [some |-> FALSE, n |-> 0]
Prices == {NoPrice} \cup [some : {TRUE}, n : {0, 5, 10, 15, 20, 25}]

\* a lookup that returns the listed symbol's entry whatever symbol is asked
get_symbol_info_any(info, symbol) ==
    IF ~info.available
    THEN [found |-> FALSE, lot |-> NoLotSize, price |-> NoPriceFilter]
    ELSE [found |-> TRUE, lot |-> info.lot, price |-> info.price]

\* OrderValidator.get_symbol_info: the symbol's entry, or None
get_symbol_info(info, symbol) ==
    IF ~info.available
    THEN [found |-> FALSE, lot |-> NoLotSize, price |-> NoPriceFilter]
    ELSE IF symbol = KnownSymbol
         THEN [found |-> TRUE, lot |-> info.lot, price |-> info.price]
         ELSE [found |-> FALSE, lot |-> NoLotSize, price |-> NoPriceFilter]

\* what validate_order_params returns (ok) and logs (error, suggestion)
Verdict(ok, error, suggestion) ==
    [ok |-> ok, error |-> error, suggestion |-> suggestion]
NoSuggestion == Dec(None, 0)

\* a step base that forgets to subtract min_qty
StepBase_no_min(qty, min_qty) == qty

\* base_qty = Decimal(str(quantity)) - min_qty
StepBase(qty, min_qty) == DecSub(qty, min_qty)

\* lines 56-88: the LOT_SIZE checks; "" when they all pass
QuantityCheck(lot, quantity) ==
    LET qty == DecimalOfFloat(quantity, QtyPlaces)
        base_qty == StepBase(qty, lot.minQty)
    IN  IF ~lot.present THEN Verdict(TRUE, "", NoSuggestion)
        ELSE IF DecLt(qty, lot.minQty)
             THEN Verdict(FALSE, "Quantity is too small.", NoSuggestion)
        ELSE IF DecGt(qty, lot.maxQty)
             THEN Verdict(FALSE, "Quantity is too large.", NoSuggestion)
        ELSE IF ~DecIsZero(DecMod(base_qty, lot.stepSize))
             THEN Verdict(FALSE, "Invalid quantity precision.",
                          DecAdd(Quantize(base_qty, lot.stepSize), lot.minQty))
        ELSE Verdict(TRUE, "", NoSuggestion)

\* price checks that take a maxPrice of 0 for an upper bound
PriceCheck_max_zero_bounds(pf, price) ==
    LET p == DecimalOfFloat(price.n, PricePlaces)
    IN  IF ~price.some \/ ~pf.present THEN Verdict(TRUE, "", NoSuggestion)
        ELSE IF DecLt(p, pf.minPrice)
             THEN Verdict(FALSE, "Price is too low.", NoSuggestion)
        ELSE IF DecGt(p, pf.maxPrice)
             THEN Verdict(FALSE, "Price is too high.", NoSuggestion)
        ELSE IF ~DecIsZero(DecMod(DecSub(p, pf.minPrice), pf.tickSize))
             THEN Verdict(FALSE, "Invalid price precision (tick size).",
                          NoSuggestion)
        ELSE Verdict(TRUE, "", NoSuggestion)

\* lines 90-114: the PRICE_FILTER checks, made only when a price is given
PriceCheck(pf, price) ==
    LET p == DecimalOfFloat(price.n, PricePlaces)
    IN  IF ~price.some \/ ~pf.present THEN Verdict(TRUE, "", NoSuggestion)
        ELSE IF DecLt(p, pf.minPrice)
             THEN Verdict(FALSE, "Price is too low.", NoSuggestion)
        ELSE IF DecGt(p, pf.maxPrice) /\ DecGt(pf.maxPrice, Dec(0, 0))
             THEN Verdict(FALSE, "Price is too high.", NoSuggestion)
        ELSE IF ~DecIsZero(DecMod(DecSub(p, pf.minPrice), pf.tickSize))
             THEN Verdict(FALSE, "Invalid price precision (tick size).",
                          NoSuggestion)
        ELSE Verdict(TRUE, "", NoSuggestion)

\* a validation that makes the price checks before the quantity checks
validate_price_first(info, symbol, quantity, price) ==
    LET symbol_info == get_symbol_info(info, symbol)
        p == PriceCheck(symbol_info.price, price)
    IN  IF ~symbol_info.found
        THEN Verdict(FALSE, "Symbol not found in exchange info.", NoSuggestion)
        ELSE IF ~p.ok THEN p
        ELSE QuantityCheck(symbol_info.lot, quantity)

\* OrderValidator.validate_order_params
validate_order_params(info, symbol, quantity, price) ==
    LET symbol_info == get_symbol_info(info, symbol)
        q == QuantityCheck(symbol_info.lot, quantity)
    IN  IF ~symbol_info.found
        THEN Verdict(FALSE, "Symbol not found in exchange info.", NoSuggestion)
        ELSE IF ~q.ok THEN q
        ELSE PriceCheck(symbol_info.price, price)

\* no validate_order_params call yet
NoCall == [symbol |-> "", quantity |-> 0, price |-> NoPrice]
NoVerdict == Verdict(FALSE, "none", NoSuggestion)

\* no OrderValidator constructed
ValIdle ==
    /\ exchange_info = NoExchangeInfo
    /\ val_pc = "idle"
    /\ val_in = NoCall
    /\ val_out = NoVerdict

\* args of main(): a field the command does not have is None (NoPrice for
\* the price)
ArgsOf(command, symbol, side, quantity, price, filter) ==
    [ command |-> command, symbol |-> symbol, side |-> side,
      quantity |-> quantity, price |-> price,
      use_sentiment_filter |-> filter, stop_price |-> None,
      take_profit |-> None, stop_loss |-> None, duration |-> None,
      range_top |-> None, range_bottom |-> None, grids |-> None ]

\* main() not running
NoArgs == ArgsOf("", "", "", 0, NoPrice, FALSE)
NoLocals == [k |-> 0, executed_quantity |-> 0, current_price |-> 0]
MainIdle ==
    /\ main_args = NoArgs
    /\ main_pc = "idle"
    /\ main_loc = NoLocals

-----------------------------------------------------------------------------
(* class Backtester *)

\* Backtester(initial_cash=10000.0), in hundredths
InitialCash == 1000000

\* the prices a feed is made of (whole units, in hundredths)
PriceSet == {9700, 9800, 9900, 10000, 10200, 10500}

\* the feeds replayed: main() never runs an empty one
Feeds == UNION { [1..n -> PriceSet] : n \in 1..MaxTicks }

\* the seeded pair's ids, in the order place_oco_order appends them
TP == 1
SL == 2

\* tp_price = initial_buy_price * 1.05, sl_price = initial_buy_price * 0.98
TpPrice(initial_buy_price) == (initial_buy_price * 105) \div 100
SlPrice(initial_buy_price) == (initial_buy_price * 98) \div 100

\* the "no call yet" value of lastOp
NoOp == [op |-> "none", o |-> None, pre |-> "none"]

\* place_simulated_oco_order not called
OcoIdle ==
    /\ oco_args = [symbol |-> "", side |-> "", quantity |-> 0,
                   take_profit_price |-> 0, stop_loss_price |-> 0]
    /\ oco_pc = "idle"
    /\ gw_calls = <<>>
    /\ gw_live = {}
    /\ tp_order = [orderId |-> None]
    /\ orders_placed = <<>>
    /\ oco_result = [kind |-> "unset", value |-> <<>>]
    /\ oco_log = <<>>

\* the replay before run(): Backtester.__init__ and the loaded feed
InitReplay ==
    /\ CtorIdle
    /\ OcoIdle
    /\ ValIdle
    /\ MainIdle
    /\ feed \in Feeds
    /\ orders = <<>>
    /\ lastOp = NoOp
    /\ open = <<>>
    /\ cash = InitialCash
    /\ position_size = 0
    /\ trade_log = <<>>
    /\ pc = "start"
    /\ i = 0
    /\ j = 0
    /\ report = [final_val |-> None, pnl |-> None]

\* a place_oco_order that appends the stop-loss leg before the take-profit leg
place_oco_order_sl_first(quantity, take_profit_price, stop_loss_price) ==
    LET tp == Order("LIMIT", "SELL", quantity, take_profit_price, None)
        sl == Order("STOP_LIMIT", "SELL", quantity, stop_loss_price,
                    stop_loss_price)
    IN  link_oco_peer((TP :> sl) @@ (SL :> tp), TP, SL)

\* Backtester.place_oco_order
place_oco_order(quantity, take_profit_price, stop_loss_price) ==
    LET tp == Order("LIMIT", "SELL", quantity, take_profit_price, None)
        sl == Order("STOP_LIMIT", "SELL", quantity, stop_loss_price,
                    stop_loss_price)
    IN  link_oco_peer((TP :> tp) @@ (SL :> sl), TP, SL)

\* run(), up to the loop: the simulated entry buy and the seeded OCO pair
RunStart ==
    /\ pc = "start"
    /\ LET initial_buy_price == feed[1]
       IN  /\ position_size' = 1
           /\ cash' = cash - initial_buy_price * 1
           /\ orders' = place_oco_order(1, TpPrice(initial_buy_price),
                                        SlPrice(initial_buy_price))
    /\ open' = <<TP, SL>>
    /\ i' = 1
    /\ j' = 1
    /\ pc' = "update"
    /\ UNCHANGED <<feed, trade_log, report, lastOp, extVars>>

\* order.update(timestamp, current_price) for the j-th open order of tick i;
\* the tick's timestamp is its index in the time-sorted feed
RunUpdate ==
    /\ pc = "update"
    /\ j <= Len(open)
    /\ orders' = update(orders, open[j], i, feed[i])
    /\ lastOp' = [op |-> "update", o |-> open[j], pre |-> orders[open[j]].status]
    /\ pc' = "fillcheck"
    /\ UNCHANGED <<feed, open, cash, position_size, trade_log, i, j, report, extVars>>

\* a ledger update that leaves the position as it was
ExecuteFill_no_position(o, c, ps, tl) ==
    [ cash |-> IF is_buy(o) THEN c - o.filled_price * o.quantity
               ELSE IF is_sell(o) THEN c + o.filled_price * o.quantity
               ELSE c,
      position_size |-> ps,
      trade_log |-> Append(tl, [Timestamp |-> o.filled_at,
                                Type |-> o.side,
                                Price |-> o.filled_price]) ]

\* Backtester._execute_fill
ExecuteFill(o, c, ps, tl) ==
    [ cash |-> IF is_buy(o) THEN c - o.filled_price * o.quantity
               ELSE IF is_sell(o) THEN c + o.filled_price * o.quantity
               ELSE c,
      position_size |-> IF is_buy(o) THEN ps + o.quantity
                        ELSE IF is_sell(o) THEN ps - o.quantity
                        ELSE ps,
      trade_log |-> Append(tl, [Timestamp |-> o.filled_at,
                                Type |-> o.side,
                                Price |-> o.filled_price]) ]

\* a fill check that applies every done order, the CANCELLED ones included
RunFillCheck_done ==
    /\ pc = "fillcheck"
    /\ LET o == orders[open[j]]
       IN  IF is_done(o)
           THEN LET l == ExecuteFill(o, cash, position_size, trade_log)
                IN  /\ cash' = l.cash
                    /\ position_size' = l.position_size
                    /\ trade_log' = l.trade_log
           ELSE UNCHANGED <<cash, position_size, trade_log>>
    /\ j' = j + 1
    /\ pc' = "update"
    /\ UNCHANGED <<feed, open, orders, lastOp, i, report, extVars>>

\* "if order.status == 'FILLED': self._execute_fill(order)", then the next order
RunFillCheck ==
    /\ pc = "fillcheck"
    /\ LET o == orders[open[j]]
       IN  IF o.status = "FILLED"
           THEN LET l == ExecuteFill(o, cash, position_size, trade_log)
                IN  /\ cash' = l.cash
                    /\ position_size' = l.position_size
                    /\ trade_log' = l.trade_log
           ELSE UNCHANGED <<cash, position_size, trade_log>>
    /\ j' = j + 1
    /\ pc' = "update"
    /\ UNCHANGED <<feed, open, orders, lastOp, i, report, extVars>>

\* a filter that keeps every order
NotDone_keep_all(ords, ids) == ids

\* the subsequence of ids whose order is not done, in the same order
RECURSIVE NotDone(_, _)
NotDone(ords, ids) ==
    IF ids = <<>> THEN <<>>
    ELSE IF is_done(ords[Head(ids)])
         THEN NotDone(ords, Tail(ids))
         ELSE <<Head(ids)>> \o NotDone(ords, Tail(ids))

\* end of the inner loop: drop the done orders, go to the next tick or finish
RunEndTick ==
    /\ pc = "update"
    /\ j > Len(open)
    /\ open' = NotDone(orders, open)
    /\ IF i < Len(feed)
       THEN /\ i' = i + 1
            /\ j' = 1
            /\ pc' = "update"
       ELSE /\ pc' = "finished"
            /\ UNCHANGED <<i, j>>
    /\ UNCHANGED <<feed, orders, lastOp, cash, position_size, trade_log, report,
                   extVars>>

\* a report that leaves the open position out of the final value
PrintResults_cash_only ==
    /\ pc = "finished"
    /\ report' = [final_val |-> cash, pnl |-> cash - InitialCash]
    /\ pc' = "reported"
    /\ UNCHANGED <<feed, open, orders, lastOp, cash, position_size, trade_log,
                   i, j, extVars>>

\* Backtester.print_results
PrintResults ==
    /\ pc = "finished"
    /\ LET last_price == feed[Len(feed)]
           final_val == cash + position_size * last_price
       IN  report' = [final_val |-> final_val, pnl |-> final_val - InitialCash]
    /\ pc' = "reported"
    /\ UNCHANGED <<feed, open, orders, lastOp, cash, position_size, trade_log,
                   i, j, extVars>>

NextReplay ==
    \/ RunStart
    \/ RunUpdate
    \/ RunFillCheck
    \/ RunEndTick
    \/ PrintResults

SpecReplay == InitReplay /\ [][NextReplay]_vars

-----------------------------------------------------------------------------
(* Direct calls on Order objects: any sequence of update / cancel / fill /  *)
(* link_oco_peer calls on a small pool of constructed orders.               *)

PoolIds == {1, 2}
PoolPrices == {9900, 10000, 10100}
TimeSet == 1..MaxTime

\* the constructor calls tried for the pool; _validate rejects some
PoolArgs ==
    [ order_type : {"LIMIT"}, side : {"BUY", "SELL"},
      price : {None, 10000}, trigger_price : {None} ]
    \cup
    [ order_type : {"STOP_LIMIT"}, side : {"BUY", "SELL"},
      price : {None, 10000}, trigger_price : {None, 9900, 10100} ]

\* the orders the constructor yields
PoolOrders ==
    { Order(a.order_type, a.side, 1, a.price, a.trigger_price) :
        a \in { b \in PoolArgs :
                  ValidateOk(b.order_type, b.price, b.trigger_price) } }

InitOrder ==
    /\ CtorIdle
    /\ OcoIdle
    /\ ValIdle
    /\ MainIdle
    /\ orders \in [PoolIds -> PoolOrders]
    /\ lastOp = NoOp
    /\ feed = <<>>
    /\ open = <<>>
    /\ cash = InitialCash
    /\ position_size = 0
    /\ trade_log = <<>>
    /\ pc = "none"
    /\ i = 0
    /\ j = 0
    /\ report = [final_val |-> None, pnl |-> None]

\* o.update(t, p)
OrderUpdate(o, t, p) ==
    /\ orders' = update(orders, o, t, p)
    /\ lastOp' = [op |-> "update", o |-> o, pre |-> orders[o].status]
    /\ UNCHANGED <<replayVars, extVars>>

\* o.cancel(t)
OrderCancel(o, t) ==
    /\ orders' = cancel(orders, o, t)
    /\ lastOp' = [op |-> "cancel", o |-> o, pre |-> orders[o].status]
    /\ UNCHANGED <<replayVars, extVars>>

\* o.fill(t, p)
OrderFill(o, t, p) ==
    /\ orders' = fill(orders, o, t, p)
    /\ lastOp' = [op |-> "fill", o |-> o, pre |-> orders[o].status]
    /\ UNCHANGED <<replayVars, extVars>>

\* a.link_oco_peer(b)
OrderLink(a, b) ==
    /\ orders' = link_oco_peer(orders, a, b)
    /\ lastOp' = [op |-> "link", o |-> a, pre |-> orders[a].status]
    /\ UNCHANGED <<replayVars, extVars>>

NextOrder ==
    \/ \E o \in PoolIds, t \in TimeSet, p \in PoolPrices : OrderUpdate(o, t, p)
    \/ \E o \in PoolIds, t \in TimeSet : OrderCancel(o, t)
    \/ \E o \in PoolIds, t \in TimeSet, p \in PoolPrices : OrderFill(o, t, p)
    \/ \E a \in PoolIds : \E b \in PoolIds \ {a} : OrderLink(a, b)

SpecOrder == InitOrder /\ [][NextOrder]_vars

-----------------------------------------------------------------------------
(* One Order of any kind: the constructor call Order(...), which _validate  *)
(* may reject, then update, cancel and fill calls on the order it yields.   *)

\* the order types the repository names
Kinds == {"MARKET", "LIMIT", "STOP_LIMIT", "TAKE_PROFIT_MARKET", "STOP_MARKET"}
\* the types whose orders wait for a trigger price
TriggerKinds == {"STOP_LIMIT", "TAKE_PROFIT_MARKET", "STOP_MARKET"}

\* the constructor calls tried
KindArgs ==
    [ order_type : Kinds \cup {"stop_limit"}, side : {"BUY", "SELL", "sell"},
      price : {None, 10000}, trigger_price : {None, 9900, 10100} ]

InitKinds ==
    /\ OcoIdle
    /\ ValIdle
    /\ MainIdle
    /\ orders = <<>>
    /\ lastOp = NoOp
    /\ ctor = NoCtor
    /\ feed = <<>>
    /\ open = <<>>
    /\ cash = InitialCash
    /\ position_size = 0
    /\ trade_log = <<>>
    /\ pc = "none"
    /\ i = 0
    /\ j = 0
    /\ report = [final_val |-> None, pnl |-> None]

\* Order(a.order_type, a.side, 1, a.price, a.trigger_price): __init__ upper-
\* cases the type and the side, then _validate raises ValueError or returns
Construct(a) ==
    /\ ~ctor.called
    /\ LET order_type == upper(a.order_type)
           side == upper(a.side)
           ok == ValidateOk(order_type, a.price, a.trigger_price)
       IN  /\ ctor' = [called |-> TRUE, raised |-> ~ok, args |-> a]
           /\ orders' = IF ok
                        THEN (1 :> Order(order_type, side, 1, a.price,
                                         a.trigger_price))
                        ELSE orders
    /\ lastOp' = [op |-> "init", o |-> 1, pre |-> "none"]
    /\ UNCHANGED <<replayVars, ocoVars, valVars, mainVars>>

NextKinds ==
    \/ \E a \in KindArgs : Construct(a)
    \/ \E o \in DOMAIN orders, t \in TimeSet, p \in PoolPrices :
          OrderUpdate(o, t, p)
    \/ \E o \in DOMAIN orders, t \in TimeSet : OrderCancel(o, t)
    \/ \E o \in DOMAIN orders, t \in TimeSet, p \in PoolPrices :
          OrderFill(o, t, p)

SpecKinds == InitKinds /\ [][NextKinds]_vars

-----------------------------------------------------------------------------
(* link_oco_peer calls over three orders, an order that already has a peer   *)
(* included, with the fills and cancels that follow the peer references.    *)

LinkIds == {1, 2, 3}

InitLink ==
    /\ CtorIdle
    /\ OcoIdle
    /\ ValIdle
    /\ MainIdle
    /\ orders = [o \in LinkIds |-> Order("LIMIT", "SELL", 1, 10000, None)]
    /\ lastOp = NoOp
    /\ feed = <<>>
    /\ open = <<>>
    /\ cash = InitialCash
    /\ position_size = 0
    /\ trade_log = <<>>
    /\ pc = "none"
    /\ i = 0
    /\ j = 0
    /\ report = [final_val |-> None, pnl |-> None]

NextLink ==
    \/ \E a \in LinkIds : \E b \in LinkIds \ {a} : OrderLink(a, b)
    \/ \E o \in LinkIds, t \in TimeSet, p \in PoolPrices : OrderFill(o, t, p)
    \/ \E o \in LinkIds, t \in TimeSet : OrderCancel(o, t)

SpecLink == InitLink /\ [][NextLink]_vars

-----------------------------------------------------------------------------
(* place_simulated_oco_order (strategies/oco.py) against the gateway         *)

\* the ids the gateway can hand out
IdSet == 1..MaxId

\* how a gateway call can end: a result, a BinanceAPIException, or any other
\* exception (a request or network error)
Outcomes == {"ok", "api_error", "other_error"}

\* the arguments tried
OcoArgs ==
    [ symbol : {"BTCUSDT"}, side : {"BUY", "SELL", "buy", "sell"},
      quantity : {1, 2}, take_profit_price : {10500},
      stop_loss_price : {9800} ]

\* str.upper() on the sides tried
Upper(side) ==
    CASE side = "buy" -> "BUY"
      [] side = "sell" -> "SELL"
      [] OTHER -> side

\* the value "return None" hands to the caller (lines 73 and 120)
ReturnNone == [kind |-> "None", value |-> <<>>]

\* the value "return orders_placed" hands to the caller (line 135)
ReturnList(lst) == [kind |-> "list", value |-> lst]

\* an exception that no except clause catches leaves the function
Propagated == [kind |-> "exception", value |-> <<>>]

\* client.futures_create_order(...): the call as the gateway sees it
CreateCall(type, stopPrice, outcome, id) ==
    [ op |-> "create", symbol |-> oco_args.symbol,
      side |-> Upper(oco_args.side), type |-> type, stopPrice |-> stopPrice,
      quantity |-> oco_args.quantity, reduceOnly |-> TRUE,
      orderId |-> IF outcome = "ok" THEN id ELSE None,
      outcome |-> outcome ]

\* client.futures_cancel_order(symbol=symbol, orderId=...)
CancelCall(orderId, outcome) ==
    [ op |-> "cancel", symbol |-> oco_args.symbol,
      side |-> "", type |-> "", stopPrice |-> None,
      quantity |-> None, reduceOnly |-> FALSE,
      orderId |-> orderId,
      outcome |-> outcome ]

\* the dict a successful futures_create_order returns
CreateResult(type, id) == [orderId |-> id, type |-> type]

\* a take-profit failure handler that goes on to the stop-loss placement
TpFailedPc_continue == "place_sl"

\* lines 65-73: the first except clause returns
TpFailedPc == "returned"

\* lines 93-101: the second except clause goes on to cancel the take-profit
SlFailedPc == "cancel_tp"

\* a cancel failure handler that tries the cancel again
CancelFailedPc_retry == "cancel_tp"

\* lines 110-120: the cancel's except clause falls through to "return None"
CancelFailedPc == "returned"

\* an append that puts the new result first
AppendPlaced_front(lst, r) == <<r>> \o lst

\* orders_placed.append(...)
AppendPlaced(lst, r) == Append(lst, r)

\* a lookup of the id under a key the result does not have
CancelOrderId_wrong_key(tp) == None

\* tp_order.get('orderId')
CancelOrderId(tp) == tp.orderId

InitOco ==
    /\ CtorIdle
    /\ ValIdle
    /\ MainIdle
    /\ oco_args \in OcoArgs
    /\ oco_pc = "place_tp"
    /\ gw_calls = <<>>
    /\ gw_live = {}
    /\ tp_order = [orderId |-> None]
    /\ orders_placed = <<>>
    /\ oco_result = [kind |-> "unset", value |-> <<>>]
    /\ oco_log = <<>>
    /\ orders = <<>>
    /\ lastOp = NoOp
    /\ feed = <<>>
    /\ open = <<>>
    /\ cash = InitialCash
    /\ position_size = 0
    /\ trade_log = <<>>
    /\ pc = "none"
    /\ i = 0
    /\ j = 0
    /\ report = [final_val |-> None, pnl |-> None]

\* lines 47-73: place the TAKE_PROFIT_MARKET order
PlaceTP(outcome, id) ==
    /\ oco_pc = "place_tp"
    /\ id \notin gw_live
    /\ gw_calls' = Append(gw_calls,
           CreateCall("TAKE_PROFIT_MARKET", oco_args.take_profit_price,
                      outcome, id))
    /\ CASE outcome = "ok" ->
             /\ gw_live' = gw_live \cup {id}
             /\ tp_order' = CreateResult("TAKE_PROFIT_MARKET", id)
             /\ orders_placed' =
                    AppendPlaced(orders_placed,
                                 CreateResult("TAKE_PROFIT_MARKET", id))
             /\ oco_log' = Append(oco_log, "info: Take-profit order placed.")
             /\ oco_pc' = "place_sl"
             /\ UNCHANGED oco_result
         [] outcome = "api_error" ->
             /\ oco_log' = Append(oco_log,
                                  "error: Failed to place take-profit order.")
             /\ oco_pc' = TpFailedPc
             /\ oco_result' = ReturnNone
             /\ UNCHANGED <<gw_live, tp_order, orders_placed>>
         [] OTHER ->
             /\ oco_pc' = "raised"
             /\ oco_result' = Propagated
             /\ UNCHANGED <<gw_live, tp_order, orders_placed, oco_log>>
    /\ UNCHANGED <<oco_args, orderVars, ctor, replayVars, valVars, mainVars>>

\* lines 75-99 and 122-135: place the STOP_MARKET order
PlaceSL(outcome, id) ==
    /\ oco_pc = "place_sl"
    /\ id \notin gw_live
    /\ gw_calls' = Append(gw_calls,
           CreateCall("STOP_MARKET", oco_args.stop_loss_price, outcome, id))
    /\ CASE outcome = "ok" ->
             /\ gw_live' = gw_live \cup {id}
             /\ orders_placed' =
                    AppendPlaced(orders_placed, CreateResult("STOP_MARKET", id))
             /\ oco_log' = oco_log \o
                    << "info: Stop-loss order placed.",
                       "info: Simulated OCO orders placed successfully." >>
             /\ oco_pc' = "returned"
             /\ oco_result' =
                    ReturnList(AppendPlaced(orders_placed,
                                            CreateResult("STOP_MARKET", id)))
         [] outcome = "api_error" ->
             /\ oco_log' = Append(oco_log,
                                  "error: Failed to place stop-loss order.")
             /\ oco_pc' = SlFailedPc
             /\ UNCHANGED <<gw_live, orders_placed, oco_result>>
         [] OTHER ->
             /\ oco_pc' = "raised"
             /\ oco_result' = Propagated
             /\ UNCHANGED <<gw_live, orders_placed, oco_log>>
    /\ UNCHANGED <<oco_args, tp_order, orderVars, ctor, replayVars, valVars,
                   mainVars>>

\* lines 100-120: the compensating cancel of the take-profit order
CancelTP(outcome) ==
    /\ oco_pc = "cancel_tp"
    /\ gw_calls' = Append(gw_calls, CancelCall(CancelOrderId(tp_order), outcome))
    /\ CASE outcome = "ok" ->
             /\ gw_live' = gw_live \ {CancelOrderId(tp_order)}
             /\ oco_log' = Append(oco_log,
                   "warning: Successfully cancelled the orphaned take-profit order.")
             /\ oco_pc' = "returned"
             /\ oco_result' = ReturnNone
         [] outcome = "api_error" ->
             /\ oco_log' = oco_log \o
                   << "error: Failed to cancel the orphaned take-profit order.",
                      "print: CRITICAL: Failed to cancel take-profit order" >>
             /\ oco_pc' = CancelFailedPc
             /\ oco_result' = ReturnNone
             /\ UNCHANGED gw_live
         [] OTHER ->
             /\ oco_pc' = "raised"
             /\ oco_result' = Propagated
             /\ UNCHANGED <<gw_live, oco_log>>
    /\ UNCHANGED <<oco_args, tp_order, orders_placed, orderVars, ctor, replayVars,
                   valVars, mainVars>>

NextOco ==
    \/ \E outcome \in Outcomes, id \in IdSet : PlaceTP(outcome, id)
    \/ \E outcome \in Outcomes, id \in IdSet : PlaceSL(outcome, id)
    \/ \E outcome \in Outcomes : CancelTP(outcome)

SpecOco == InitOco /\ [][NextOco]_vars

-----------------------------------------------------------------------------
(* OrderValidator: construction and calls *)

\* OrderValidator.__init__ up to the fetch: self.exchange_info = None
InitValidate ==
    /\ CtorIdle
    /\ exchange_info = NoExchangeInfo
    /\ val_pc = "new"
    /\ val_in = NoCall
    /\ val_out = NoVerdict
    /\ OcoIdle
    /\ MainIdle
    /\ orders = <<>>
    /\ lastOp = NoOp
    /\ feed = <<>>
    /\ open = <<>>
    /\ cash = InitialCash
    /\ position_size = 0
    /\ trade_log = <<>>
    /\ pc = "none"
    /\ i = 0
    /\ j = 0
    /\ report = [final_val |-> None, pnl |-> None]

\* OrderValidator._fetch_exchange_info: the fetch succeeds
FetchOk(info) ==
    /\ val_pc = "new"
    /\ exchange_info' = info
    /\ val_pc' = "ready"
    /\ UNCHANGED <<val_in, val_out, orderVars, ctor, replayVars, ocoVars, mainVars>>

\* OrderValidator._fetch_exchange_info: BinanceAPIException, caught
FetchFailed ==
    /\ val_pc = "new"
    /\ exchange_info' = NoExchangeInfo
    /\ val_pc' = "ready"
    /\ UNCHANGED <<val_in, val_out, orderVars, ctor, replayVars, ocoVars, mainVars>>

\* validator.validate_order_params(symbol, quantity, price)
Validate(symbol, quantity, price) ==
    /\ val_pc = "ready"
    /\ val_in' = [symbol |-> symbol, quantity |-> quantity, price |-> price]
    /\ val_out' = validate_order_params(exchange_info, symbol, quantity, price)
    /\ val_pc' = "validated"
    /\ UNCHANGED <<exchange_info, orderVars, ctor, replayVars, ocoVars, mainVars>>

NextValidate ==
    \/ \E info \in ExchangeInfos : FetchOk(info)
    \/ FetchFailed
    \/ \E symbol \in Symbols, quantity \in Quantities, price \in Prices :
          Validate(symbol, quantity, price)

SpecValidate == InitValidate /\ [][NextValidate]_vars

-----------------------------------------------------------------------------
(* main() (main.py): start-up, the sentiment filter and the six commands;   *)
(* execute_twap_strategy (advanced/twap.py) and setup_grid_strategy          *)
(* (strategies/grid.py) as far as their gateway calls go.  Prices are in    *)
(* hundredths, quantities in ten-thousandths.                                *)

\* the commands whose branch of main() calls the validator
Gated == {"market", "limit", "stop-limit"}

\* interval_seconds = 30
IntervalSeconds == 30

\* the parsed command lines tried
MainQuantities == {0, 20}
MainPrices == {[some |-> TRUE, n |-> 0], [some |-> TRUE, n |-> 10]}
Sides == {"BUY", "SELL"}

MainArgs ==
    { ArgsOf("market", sy, sd, q, NoPrice, f) :
        sy \in Symbols, sd \in Sides, q \in MainQuantities, f \in BOOLEAN }
    \cup
    { ArgsOf("limit", sy, sd, q, pr, f) :
        sy \in Symbols, sd \in Sides, q \in MainQuantities,
        pr \in MainPrices, f \in BOOLEAN }
    \cup
    { [ArgsOf("stop-limit", sy, sd, q, pr, FALSE) EXCEPT !.stop_price = 15] :
        sy \in Symbols, sd \in Sides, q \in MainQuantities, pr \in MainPrices }
    \cup
    { [ArgsOf("oco", sy, sd, q, NoPrice, FALSE)
          EXCEPT !.take_profit = 10500, !.stop_loss = 9800] :
        sy \in Symbols, sd \in Sides, q \in MainQuantities }
    \cup
    { [ArgsOf("twap", sy, sd, q, NoPrice, FALSE) EXCEPT !.duration = d] :
        sy \in Symbols, sd \in Sides, q \in MainQuantities, d \in {0, 1} }
    \cup
    { [ArgsOf("grid", sy, "", q, NoPrice, FALSE)
          EXCEPT !.range_top = r[1], !.range_bottom = r[2], !.grids = g] :
        sy \in Symbols, q \in MainQuantities,
        r \in {<<10200, 9800>>, <<9800, 9800>>}, g \in {2, 3} }

\* the exchange infos a start-up can fetch
MainInfos ==
    { [available |-> TRUE,
       lot |-> [present |-> TRUE, minQty |-> Dec(1, 3),
                maxQty |-> Dec(1000, 0), stepSize |-> step],
       price |-> [present |-> TRUE, minPrice |-> Dec(5, 2),
                  maxPrice |-> Dec(0, 0), tickSize |-> Dec(5, 2)]] :
        step \in {Dec(1, 3), Dec(5, 3)} }

\* what get_fear_and_greed_index() can return: None, or a classification
Sentiments == {"none", "Extreme Fear", "Fear", "Neutral", "Greed",
               "Extreme Greed"}

\* "fear" in classification, "greed" in classification
HasFear(c) == c \in {"Extreme Fear", "Fear"}
HasGreed(c) == c \in {"Extreme Greed", "Greed"}

\* client.futures_create_order(...) as issued by the order functions, by
\* execute_twap_strategy and by setup_grid_strategy
GatewayCreate(type, quantity, price, stopPrice, side, outcome, id) ==
    [ op |-> "create", symbol |-> main_args.symbol, side |-> side,
      type |-> type, stopPrice |-> stopPrice, quantity |-> quantity,
      price |-> price, reduceOnly |-> FALSE,
      orderId |-> IF outcome = "ok" THEN id ELSE None,
      outcome |-> outcome ]

\* client.futures_symbol_ticker(symbol=symbol)
TickerCall(outcome) ==
    [ op |-> "ticker", symbol |-> main_args.symbol, side |-> "", type |-> "",
      stopPrice |-> None, quantity |-> None, price |-> None,
      reduceOnly |-> FALSE, orderId |-> None, outcome |-> outcome ]

\* main() before the try of line 147: the command line is parsed
InitMain ==
    /\ CtorIdle
    /\ OcoIdle
    /\ ValIdle
    /\ main_args \in MainArgs
    /\ main_pc = "start"
    /\ main_loc = NoLocals
    /\ orders = <<>>
    /\ lastOp = NoOp
    /\ feed = <<>>
    /\ open = <<>>
    /\ cash = InitialCash
    /\ position_size = 0
    /\ trade_log = <<>>
    /\ pc = "none"
    /\ i = 0
    /\ j = 0
    /\ report = [final_val |-> None, pnl |-> None]

\* lines 147-152: get_binance_client() raises; main() prints and exits
MainClientFailed ==
    /\ main_pc = "start"
    /\ main_pc' = "exited"
    /\ UNCHANGED <<main_args, main_loc, valVars, ocoVars, orderVars, ctor, replayVars>>

\* lines 147-149: the client is built and OrderValidator fetches the rules
MainFetchOk(info) ==
    /\ main_pc = "start"
    /\ exchange_info' = info
    /\ val_pc' = "ready"
    /\ main_pc' = "filter"
    /\ UNCHANGED <<main_args, main_loc, val_in, val_out, ocoVars, orderVars, ctor,
                   replayVars>>

\* the fetch raises BinanceAPIException: _fetch_exchange_info catches it and
\* the constructor returns with exchange_info None
MainFetchFailed ==
    /\ main_pc = "start"
    /\ exchange_info' = NoExchangeInfo
    /\ val_pc' = "ready"
    /\ main_pc' = "filter"
    /\ UNCHANGED <<main_args, main_loc, val_in, val_out, ocoVars, orderVars, ctor,
                   replayVars>>

\* the fetch raises another exception: it leaves the constructor, which has
\* set exchange_info to None, and main() exits (lines 150-152)
MainFetchRaised ==
    /\ main_pc = "start"
    /\ exchange_info' = NoExchangeInfo
    /\ val_pc' = "new"
    /\ main_pc' = "exited"
    /\ UNCHANGED <<main_args, main_loc, val_in, val_out, ocoVars, orderVars, ctor,
                   replayVars>>

\* lines 155-179: the sentiment filter of the market and limit commands
MainFilter(sentiment) ==
    /\ main_pc = "filter"
    /\ LET applies == /\ main_args.command \in {"market", "limit"}
                      /\ main_args.use_sentiment_filter
           abort == /\ applies
                    /\ sentiment # "none"
                    /\ \/ main_args.side = "BUY" /\ ~HasFear(sentiment)
                       \/ main_args.side = "SELL" /\ ~HasGreed(sentiment)
       IN  main_pc' = IF abort THEN "done" ELSE "command"
    /\ UNCHANGED <<main_args, main_loc, valVars, ocoVars, orderVars, ctor, replayVars>>

\* a branch that places the order whatever the validator returned
AfterValidatePc_always_place(ok) == "place"

\* "if validator.validate_order_params(...):" of lines 182, 188 and 196
AfterValidatePc(ok) == IF ok THEN "place" ELSE "done"

\* the validator call of the market, limit and stop-limit branches
MainValidate ==
    /\ main_pc = "command"
    /\ main_args.command \in Gated
    /\ LET price == IF main_args.command = "market" THEN NoPrice
                    ELSE main_args.price
           out == validate_order_params(exchange_info, main_args.symbol,
                                        main_args.quantity, price)
       IN  /\ val_in' = [symbol |-> main_args.symbol,
                         quantity |-> main_args.quantity, price |-> price]
           /\ val_out' = out
           /\ main_pc' = AfterValidatePc(out.ok)
    /\ val_pc' = "validated"
    /\ UNCHANGED <<main_args, main_loc, exchange_info, ocoVars, orderVars, ctor,
                   replayVars>>

\* place_market_order / place_limit_order / place_stop_limit_order: one create
\* call; each function catches every exception and returns
MainPlace(outcome, id) ==
    /\ main_pc = "place"
    /\ id \notin gw_live
    /\ LET a == main_args
           call ==
             CASE a.command = "market" ->
                    GatewayCreate("MARKET", a.quantity, None, None, a.side,
                                  outcome, id)
               [] a.command = "limit" ->
                    GatewayCreate("LIMIT", a.quantity, a.price.n, None, a.side,
                                  outcome, id)
               [] OTHER ->
                    GatewayCreate("STOP", a.quantity, a.price.n, a.stop_price,
                                  a.side, outcome, id)
       IN  gw_calls' = Append(gw_calls, call)
    /\ gw_live' = IF outcome = "ok" THEN gw_live \cup {id} ELSE gw_live
    /\ main_pc' = "done"
    /\ UNCHANGED <<main_args, main_loc, valVars, oco_args, oco_pc, tp_order,
                   orders_placed, oco_result, oco_log, orderVars, ctor, replayVars>>

\* lines 204-208: the oco branch calls place_simulated_oco_order
MainOcoCall ==
    /\ main_pc = "command"
    /\ main_args.command = "oco"
    /\ oco_args' = [symbol |-> main_args.symbol, side |-> main_args.side,
                    quantity |-> main_args.quantity,
                    take_profit_price |-> main_args.take_profit,
                    stop_loss_price |-> main_args.stop_loss]
    /\ oco_pc' = "place_tp"
    /\ main_pc' = "oco"
    /\ UNCHANGED <<main_args, main_loc, valVars, gw_calls, gw_live, tp_order,
                   orders_placed, oco_result, oco_log, orderVars, ctor, replayVars>>

\* place_simulated_oco_order has returned, or has let an exception through
MainOcoReturn ==
    /\ main_pc = "oco"
    /\ oco_pc \in {"returned", "raised"}
    /\ main_pc' = IF oco_pc = "raised" THEN "crashed" ELSE "done"
    /\ UNCHANGED <<main_args, main_loc, valVars, ocoVars, orderVars, ctor, replayVars>>

\* num_intervals = (duration_minutes * 60) // interval_seconds
NumIntervals(duration_minutes) == (duration_minutes * 60) \div IntervalSeconds

\* the percentages standing for random.uniform(0.8, 1.2)
Factors == {80, 100, 120}

\* float(f"{order_quantity:.3f}") in ten-thousandths, for order_quantity =
\* total / num_intervals * factor, cut to what is left of the total
ChildQuantity(total_quantity, num_intervals, factor, executed_quantity) ==
    LET d == num_intervals * 100
        n == IF executed_quantity * d + total_quantity * factor
                    > total_quantity * d
             THEN (total_quantity - executed_quantity) * d
             ELSE total_quantity * factor
    IN  10 * ((2 * n + 10 * d) \div (20 * d))

\* lines 210-213 and twap.py lines 39-57: the twap branch up to the loop
MainTwapStart ==
    /\ main_pc = "command"
    /\ main_args.command = "twap"
    /\ main_pc' = IF NumIntervals(main_args.duration) = 0 THEN "done"
                  ELSE "twap"
    /\ main_loc' = NoLocals
    /\ UNCHANGED <<main_args, valVars, ocoVars, orderVars, ctor, replayVars>>

\* twap.py lines 66-115: one interval places one MARKET child order
TwapChild(factor, outcome, id) ==
    /\ main_pc = "twap"
    /\ id \notin gw_live
    /\ LET num_intervals == NumIntervals(main_args.duration)
           order_quantity ==
               ChildQuantity(main_args.quantity, num_intervals, factor,
                             main_loc.executed_quantity)
           executed == main_loc.executed_quantity + order_quantity
           last == main_loc.k + 1 = num_intervals
       IN  /\ gw_calls' = Append(gw_calls,
                  GatewayCreate("MARKET", order_quantity, None, None,
                                main_args.side, outcome, id))
           /\ CASE outcome = "ok" ->
                    /\ gw_live' = gw_live \cup {id}
                    /\ main_loc' = [main_loc EXCEPT !.k = @ + 1,
                                        !.executed_quantity = executed]
                    /\ main_pc' = IF executed >= main_args.quantity \/ last
                                  THEN "done" ELSE "twap"
                [] outcome = "api_error" ->
                    /\ main_loc' = [main_loc EXCEPT !.k = @ + 1]
                    /\ main_pc' = IF last THEN "done" ELSE "twap"
                    /\ UNCHANGED gw_live
                [] OTHER ->
                    /\ main_pc' = "crashed"
                    /\ UNCHANGED <<gw_live, main_loc>>
    /\ UNCHANGED <<main_args, valVars, oco_args, oco_pc, tp_order,
                   orders_placed, oco_result, oco_log, orderVars, ctor, replayVars>>

\* twap.py lines 60-64: the wall clock is past end_time when an interval
\* starts, the first one included
TwapTimeUp ==
    /\ main_pc = "twap"
    /\ main_pc' = "done"
    /\ UNCHANGED <<main_args, main_loc, valVars, ocoVars, orderVars, ctor, replayVars>>

\* np.linspace(range_bottom, range_top, num_grids)[k - 1]
GridLevel(range_bottom, range_top, num_grids, k) ==
    range_bottom + ((k - 1) * (range_top - range_bottom)) \div (num_grids - 1)

\* the current prices the ticker can report
TickerPrices == {10000, 10100}

\* lines 215-219 and grid.py lines 43-66: the range check and the ticker call
MainGridStart(outcome, current_price) ==
    /\ main_pc = "command"
    /\ main_args.command = "grid"
    /\ IF main_args.range_bottom >= main_args.range_top
       THEN /\ main_pc' = "done"
            /\ UNCHANGED <<main_loc, gw_calls>>
       ELSE /\ gw_calls' = Append(gw_calls, TickerCall(outcome))
            /\ CASE outcome = "ok" ->
                     /\ main_loc' = [k |-> 1, executed_quantity |-> 0,
                                     current_price |-> current_price]
                     /\ main_pc' = "grid"
                 [] outcome = "api_error" ->
                     /\ main_pc' = "done"
                     /\ UNCHANGED main_loc
                 [] OTHER ->
                     /\ main_pc' = "crashed"
                     /\ UNCHANGED main_loc
    /\ UNCHANGED <<main_args, valVars, oco_args, oco_pc, gw_live, tp_order,
                   orders_placed, oco_result, oco_log, orderVars, ctor, replayVars>>

\* grid.py lines 69-124: one grid level, skipped or placed as a LIMIT order
GridOrder(outcome, id) ==
    /\ main_pc = "grid"
    /\ id \notin gw_live
    /\ LET level == GridLevel(main_args.range_bottom, main_args.range_top,
                              main_args.grids, main_loc.k)
           side == IF level < main_loc.current_price THEN "BUY" ELSE "SELL"
           last == main_loc.k = main_args.grids
       IN  IF level = main_loc.current_price
           THEN /\ main_loc' = [main_loc EXCEPT !.k = @ + 1]
                /\ main_pc' = IF last THEN "done" ELSE "grid"
                /\ UNCHANGED <<gw_calls, gw_live>>
           ELSE /\ gw_calls' = Append(gw_calls,
                       GatewayCreate("LIMIT", main_args.quantity, level, None,
                                     side, outcome, id))
                /\ CASE outcome = "ok" ->
                         /\ gw_live' = gw_live \cup {id}
                         /\ main_loc' = [main_loc EXCEPT !.k = @ + 1]
                         /\ main_pc' = IF last THEN "done" ELSE "grid"
                     [] outcome = "api_error" ->
                         /\ main_loc' = [main_loc EXCEPT !.k = @ + 1]
                         /\ main_pc' = IF last THEN "done" ELSE "grid"
                         /\ UNCHANGED gw_live
                     [] OTHER ->
                         /\ main_pc' = "crashed"
                         /\ UNCHANGED <<gw_live, main_loc>>
    /\ UNCHANGED <<main_args, valVars, oco_args, oco_pc, tp_order,
                   orders_placed, oco_result, oco_log, orderVars, ctor, replayVars>>

NextMain ==
    \/ MainClientFailed
    \/ \E info \in MainInfos : MainFetchOk(info)
    \/ MainFetchFailed
    \/ MainFetchRaised
    \/ \E sentiment \in Sentiments : MainFilter(sentiment)
    \/ MainValidate
    \/ \E outcome \in Outcomes, id \in IdSet : MainPlace(outcome, id)
    \/ MainOcoCall
    \/ \E outcome \in Outcomes, id \in IdSet : PlaceTP(outcome, id)
    \/ \E outcome \in Outcomes, id \in IdSet : PlaceSL(outcome, id)
    \/ \E outcome \in Outcomes : CancelTP(outcome)
    \/ MainOcoReturn
    \/ MainTwapStart
    \/ \E factor \in Factors, outcome \in Outcomes, id \in IdSet :
          TwapChild(factor, outcome, id)
    \/ TwapTimeUp
    \/ \E outcome \in Outcomes, current_price \in TickerPrices :
          MainGridStart(outcome, current_price)
    \/ \E outcome \in Outcomes, id \in IdSet : GridOrder(outcome, id)

SpecMain == InitMain /\ [][NextMain]_vars

-----------------------------------------------------------------------------
(* Properties of the replay and of the Order methods *)

\* an order that is, or at some point was, filled: fill alone sets filled_at
EverFilled(o) == o.status = "FILLED" \/ o.filled_at # None

\* C1: in a replay no state has both legs of a linked pair filled, now or at
\* any earlier point (a fill leaves filled_at set for good).
C1_NeverBothFilled ==
    \A a \in DOMAIN orders :
        LET b == orders[a].oco_peer
        IN  b # None => ~(EverFilled(orders[a]) /\ EverFilled(orders[b]))

\* C1 witness: a finished replay in which the stop leg filled and the
\* take-profit leg was cancelled.
C1_Witness ==
    /\ pc = "reported"
    /\ orders[SL].status = "FILLED"
    /\ orders[TP].status = "CANCELLED"
    /\ orders[SL].oco_peer = TP

\* C2: an update or cancel call never changes the status, filled_at or
\* filled_price of any order that is already FILLED or CANCELLED.
C2_TerminalAbsorbing ==
    [][ \A o \in DOMAIN orders :
          (is_done(orders[o]) /\ lastOp'.op \in {"update", "cancel"})
          => /\ orders'[o].status = orders[o].status
             /\ orders'[o].filled_at = orders[o].filled_at
             /\ orders'[o].filled_price = orders[o].filled_price ]_vars

\* C2 witness: update was called on a CANCELLED limit order, which stayed
\* CANCELLED and unfilled.
C2_Witness ==
    /\ lastOp.op = "update"
    /\ lastOp.pre = "CANCELLED"
    /\ orders[lastOp.o].order_type = "LIMIT"
    /\ orders[lastOp.o].status = "CANCELLED"
    /\ orders[lastOp.o].filled_at = None

\* C3: after a cancel call the order is CANCELLED if it was PENDING, ACTIVE or
\* CANCELLED and FILLED if it was FILLED, and a second cancel (at any
\* timestamp) changes nothing.
C3_CancelIdempotent ==
    lastOp.op = "cancel" =>
        /\ (lastOp.pre = "FILLED") => orders[lastOp.o].status = "FILLED"
        /\ (lastOp.pre \in {"PENDING", "ACTIVE", "CANCELLED"})
              => orders[lastOp.o].status = "CANCELLED"
        /\ \A t \in TimeSet : cancel(orders, lastOp.o, t) = orders

\* C3 witness: cancel was called on a FILLED order, which is still FILLED.
C3_Witness ==
    /\ lastOp.op = "cancel"
    /\ lastOp.pre = "FILLED"
    /\ orders[lastOp.o].status = "FILLED"

\* C4: between the update that filled a leg and the ledger update for that
\* fill, the peer is already CANCELLED, was not filled, and the ledger is
\* still untouched.
C4_CascadeBeforeLedger ==
    (pc = "fillcheck" /\ orders[open[j]].status = "FILLED"
       /\ orders[open[j]].oco_peer # None)
    => LET peer == orders[orders[open[j]].oco_peer]
       IN  /\ peer.status = "CANCELLED"
           /\ peer.filled_at = None
           /\ peer.filled_price = None
           /\ trade_log = <<>>
           /\ position_size = 1

\* C4 witness: the take-profit leg has just been filled by an update while
\* its peer was open, and the ledger update is about to run.
C4_Witness ==
    /\ pc = "fillcheck"
    /\ open[j] = TP
    /\ lastOp.pre = "PENDING"
    /\ orders[TP].status = "FILLED"
    /\ orders[SL].status = "CANCELLED"
    /\ trade_log = <<>>

-----------------------------------------------------------------------------
(* Properties of place_simulated_oco_order *)

\* the call has ended, by a return or by an exception leaving it
OcoEnded == oco_pc \in {"returned", "raised"}

\* the gateway calls of one kind made so far
CallsOf(op) == { k \in 1..Len(gw_calls) : gw_calls[k].op = op }

\* leg A's placement succeeded and leg B's failed with a BinanceAPIException
LegBFailed ==
    /\ Len(gw_calls) >= 2
    /\ gw_calls[1].outcome = "ok"
    /\ gw_calls[2].outcome = "api_error"

\* the CRITICAL message of a failed compensation was printed
CriticalPrinted ==
    \E k \in 1..Len(oco_log) :
        oco_log[k] = "print: CRITICAL: Failed to cancel take-profit order"

\* C5: when the take-profit placement fails, the call ends there: one gateway
\* call in all, no stop-loss placement, no cancel, nothing live, and the
\* caller gets None (or the exception that was not a BinanceAPIException).
C5_TpFailureStops ==
    (Len(gw_calls) >= 1 /\ gw_calls[1].outcome # "ok")
    => /\ Len(gw_calls) = 1
       /\ OcoEnded
       /\ gw_live = {}
       /\ orders_placed = <<>>
       /\ gw_calls[1].outcome = "api_error" => oco_result = ReturnNone
       /\ gw_calls[1].outcome = "other_error" => oco_result = Propagated

\* C5 witness: the take-profit placement raised a BinanceAPIException and the
\* call returned.
C5_Witness ==
    /\ oco_pc = "returned"
    /\ Len(gw_calls) = 1
    /\ gw_calls[1].type = "TAKE_PROFIT_MARKET"
    /\ gw_calls[1].outcome = "api_error"

\* C6: when both placements succeed, the gateway saw exactly the take-profit
\* placement and then the stop-loss placement, no cancel, and the caller gets
\* the two gateway results in that order.
C6_BothPlaced ==
    (Len(gw_calls) >= 2 /\ gw_calls[1].outcome = "ok"
       /\ gw_calls[2].outcome = "ok")
    => /\ Len(gw_calls) = 2
       /\ gw_calls[1].op = "create" /\ gw_calls[1].type = "TAKE_PROFIT_MARKET"
       /\ gw_calls[2].op = "create" /\ gw_calls[2].type = "STOP_MARKET"
       /\ CallsOf("cancel") = {}
       /\ oco_pc = "returned"
       /\ oco_result =
             ReturnList(<< CreateResult("TAKE_PROFIT_MARKET", gw_calls[1].orderId),
                           CreateResult("STOP_MARKET", gw_calls[2].orderId) >>)
       /\ gw_live = {gw_calls[1].orderId, gw_calls[2].orderId}

\* C6 witness: a call that returned a list of two results.
C6_Witness ==
    /\ oco_pc = "returned"
    /\ oco_result.kind = "list"
    /\ Len(oco_result.value) = 2
    /\ Len(gw_calls) = 2

\* C7: when leg A was placed with id X and leg B failed with a
\* BinanceAPIException, every cancel sent carries id X, the call does not
\* return before the cancel was sent, and after a successful cancel the
\* caller gets None, no CRITICAL message was printed and nothing is live.
C7_CompensationCancelsA ==
    LegBFailed
    => /\ \A k \in CallsOf("cancel") : gw_calls[k].orderId = gw_calls[1].orderId
       /\ OcoEnded => (Len(gw_calls) = 3 /\ gw_calls[3].op = "cancel")
       /\ (Len(gw_calls) = 3 /\ gw_calls[3].outcome = "ok")
            => /\ oco_pc = "returned"
               /\ oco_result = ReturnNone
               /\ ~CriticalPrinted
               /\ gw_live = {}

\* C7 witness: leg A placed, leg B failed, the cancel of leg A succeeded and
\* the call returned.
C7_Witness ==
    /\ LegBFailed
    /\ oco_pc = "returned"
    /\ Len(gw_calls) = 3
    /\ gw_calls[3].op = "cancel"
    /\ gw_calls[3].outcome = "ok"

\* C8 (as claimed): when the compensating cancel fails too, the value returned
\* to the caller differs from the value returned for a plain gateway error.
C8_CompensationFailureDistinct ==
    (oco_pc = "returned" /\ LegBFailed /\ Len(gw_calls) = 3
       /\ gw_calls[3].outcome = "api_error")
    => oco_result # ReturnNone

\* C9: at most one cancel and at most three gateway calls are ever sent, and
\* when the call has ended exactly one cancel was sent if and only if leg A
\* was placed and leg B failed with a BinanceAPIException.
C9_OneCompensation ==
    /\ Cardinality(CallsOf("cancel")) <= 1
    /\ Len(gw_calls) <= 3
    /\ OcoEnded => (Cardinality(CallsOf("cancel")) = 1 <=> LegBFailed)

\* C9 witness: the call returned after the one cancel it sent had failed.
C9_Witness ==
    /\ oco_pc = "returned"
    /\ Cardinality(CallsOf("cancel")) = 1
    /\ gw_calls[Len(gw_calls)].op = "cancel"
    /\ gw_calls[Len(gw_calls)].outcome = "api_error"

-----------------------------------------------------------------------------
(* Properties of validate_order_params *)

\* the last call asked about the listed symbol, whose rule set has a LOT_SIZE
\* filter, and gave no price
QuantityOnlyCall ==
    /\ val_pc = "validated"
    /\ val_in.symbol = KnownSymbol
    /\ ~val_in.price.some
    /\ exchange_info.available
    /\ exchange_info.lot.present

\* C10: with no price and a known symbol the call succeeds if and only if
\* minQty <= quantity <= maxQty and (quantity - minQty) is an exact multiple
\* of stepSize; all four are compared as integers of one common unit.
C10_QuantityIff ==
    QuantityOnlyCall
    => LET lot == exchange_info.lot
           u == Max(QtyPlaces,
                    Max(lot.minQty.e, Max(lot.maxQty.e, lot.stepSize.e)))
           q == val_in.quantity * Pow10(u - QtyPlaces)
           minQty == lot.minQty.c * Pow10(u - lot.minQty.e)
           maxQty == lot.maxQty.c * Pow10(u - lot.maxQty.e)
           stepQty == lot.stepSize.c * Pow10(u - lot.stepSize.e)
       IN  val_out.ok <=> ( /\ minQty <= q
                            /\ q <= maxQty
                            /\ (q - minQty) % stepQty = 0 )

\* C10 witness: a quantity above minQty and on the step was accepted with no
\* price given (0.006 for minQty 0.001 and stepSize 0.005).
C10_Witness ==
    /\ QuantityOnlyCall
    /\ val_out.ok
    /\ val_in.quantity = 60
    /\ exchange_info.lot.minQty = Dec(1, 3)
    /\ exchange_info.lot.stepSize = Dec(5, 3)


\* the last call asked about the listed symbol and was rejected by the step
\* check of its LOT_SIZE filter
StepRejected ==
    /\ val_pc = "validated"
    /\ val_in.symbol = KnownSymbol
    /\ exchange_info.available
    /\ exchange_info.lot.present
    /\ val_out.error = "Invalid quantity precision."

\* C11: a quantity within [minQty, maxQty] that fails the step check is
\* rejected with the suggestion minQty + stepQty * floor((quantity - minQty) /
\* stepQty), whatever the step, and the suggested quantity itself passes the
\* quantity checks; all values are integers of one common unit.
C11_SuggestionIsFlooredMultiple ==
    StepRejected
    => LET lot == exchange_info.lot
           u == Max(QtyPlaces,
                    Max(lot.minQty.e, Max(lot.maxQty.e, lot.stepSize.e)))
           q == val_in.quantity * Pow10(u - QtyPlaces)
           minQty == lot.minQty.c * Pow10(u - lot.minQty.e)
           maxQty == lot.maxQty.c * Pow10(u - lot.maxQty.e)
           stepQty == lot.stepSize.c * Pow10(u - lot.stepSize.e)
           suggested == Scaled(val_out.suggestion, u)
       IN  /\ suggested = minQty + stepQty * ((q - minQty) \div stepQty)
           /\ minQty <= suggested
           /\ suggested <= maxQty
           /\ (suggested - minQty) % stepQty = 0

\* the last call asked about the listed symbol with a quantity that passes the
\* quantity checks and a price, and the rule set has a PRICE_FILTER filter
PricedCall ==
    /\ val_pc = "validated"
    /\ val_in.symbol = KnownSymbol
    /\ val_in.price.some
    /\ exchange_info.available
    /\ exchange_info.price.present
    /\ QuantityCheck(exchange_info.lot, val_in.quantity).ok

\* the rule sets that differ from the fetched one in the price filter alone
OtherPriceFilters ==
    { [exchange_info EXCEPT !.price = pf] :
          pf \in PriceFilters \cup {NoPriceFilter} }

\* C12: with a valid quantity and a price the call succeeds if and only if
\* price >= minPrice, (maxPrice = 0 or price <= maxPrice) and (price -
\* minPrice) is an exact multiple of tickSize, all compared as integers of
\* one common unit; with no price the verdict is the same under every price
\* filter.
C12_PriceIff ==
    /\ PricedCall
       => LET pf == exchange_info.price
              u == Max(PricePlaces,
                       Max(pf.minPrice.e, Max(pf.maxPrice.e, pf.tickSize.e)))
              price == val_in.price.n * Pow10(u - PricePlaces)
              minPrice == pf.minPrice.c * Pow10(u - pf.minPrice.e)
              maxPrice == pf.maxPrice.c * Pow10(u - pf.maxPrice.e)
              tickSize == pf.tickSize.c * Pow10(u - pf.tickSize.e)
          IN  val_out.ok <=> ( /\ price >= minPrice
                               /\ (maxPrice = 0 \/ price <= maxPrice)
                               /\ (price - minPrice) % tickSize = 0 )
    /\ (val_pc = "validated" /\ ~val_in.price.some)
       => \A info \in OtherPriceFilters :
              validate_order_params(info, val_in.symbol, val_in.quantity,
                                    val_in.price) = val_out

\* C12 witness: under a price filter whose maxPrice is 0 a price above every
\* listed maxPrice (0.25) was accepted.
C12_Witness ==
    /\ PricedCall
    /\ exchange_info.price.maxPrice = Dec(0, 0)
    /\ val_in.price.n = 25
    /\ val_out.ok

\* C13: a call about a symbol that the exchange info does not list, or made
\* when there is no exchange info, returns False with the symbol error and
\* nothing else, whatever the quantity and the price.
C13_UnknownSymbolFails ==
    (val_pc = "validated"
     /\ (val_in.symbol # KnownSymbol \/ ~exchange_info.available))
    => val_out = Verdict(FALSE, "Symbol not found in exchange info.",
                         NoSuggestion)

\* C13 witness: an unlisted symbol was asked about with a quantity and a price
\* that the listed symbol's filters would both reject.
C13_Witness ==
    /\ val_pc = "validated"
    /\ val_in.symbol = "XYZUSDT"
    /\ exchange_info.available
    /\ exchange_info.lot.present
    /\ exchange_info.price.present
    /\ val_in.quantity = 0
    /\ val_in.price = [some |-> TRUE, n |-> 0]
    /\ ~val_out.ok

\* the last call asked about the listed symbol, whose rule set has both
\* filters
FullRuleCall ==
    /\ val_pc = "validated"
    /\ val_in.symbol = KnownSymbol
    /\ exchange_info.available
    /\ exchange_info.lot.present
    /\ exchange_info.price.present

\* C20: the error logged is that of the first failing check in the order
\* quantity too small, too large, off the step, price too low, too high, off
\* the tick (the price checks only when a price is given), and none when all
\* pass; the checks are evaluated as integers of one common unit.
C20_FirstFailureReported ==
    FullRuleCall
    => LET lot == exchange_info.lot
           pf == exchange_info.price
           u == Max(QtyPlaces,
                    Max(lot.minQty.e, Max(lot.maxQty.e, lot.stepSize.e)))
           q == val_in.quantity * Pow10(u - QtyPlaces)
           minQty == lot.minQty.c * Pow10(u - lot.minQty.e)
           maxQty == lot.maxQty.c * Pow10(u - lot.maxQty.e)
           stepQty == lot.stepSize.c * Pow10(u - lot.stepSize.e)
           w == Max(PricePlaces,
                    Max(pf.minPrice.e, Max(pf.maxPrice.e, pf.tickSize.e)))
           price == val_in.price.n * Pow10(w - PricePlaces)
           minPrice == pf.minPrice.c * Pow10(w - pf.minPrice.e)
           maxPrice == pf.maxPrice.c * Pow10(w - pf.maxPrice.e)
           tickSize == pf.tickSize.c * Pow10(w - pf.tickSize.e)
       IN  val_out.error =
               IF q < minQty THEN "Quantity is too small."
               ELSE IF q > maxQty THEN "Quantity is too large."
               ELSE IF (q - minQty) % stepQty # 0
                    THEN "Invalid quantity precision."
               ELSE IF ~val_in.price.some THEN ""
               ELSE IF price < minPrice THEN "Price is too low."
               ELSE IF maxPrice > 0 /\ price > maxPrice
                    THEN "Price is too high."
               ELSE IF (price - minPrice) % tickSize # 0
                    THEN "Invalid price precision (tick size)."
               ELSE ""

\* C20 witness: a quantity below minQty and off the step (0.0005 for minQty
\* 0.001, stepSize 0.001) with a price below minPrice was reported as too
\* small.
C20_Witness ==
    /\ FullRuleCall
    /\ exchange_info.lot.minQty = Dec(1, 3)
    /\ exchange_info.lot.stepSize = Dec(1, 3)
    /\ val_in.quantity = 5
    /\ val_in.price = [some |-> TRUE, n |-> 0]
    /\ val_out.error = "Quantity is too small."

-----------------------------------------------------------------------------
(* Properties of the replay's ledger and report *)

\* the order just updated came out FILLED and run() is about to apply it
FillPending == pc = "fillcheck" /\ orders[open[j]].status = "FILLED"

\* the orders that are FILLED
FilledOrders == {o \in DOMAIN orders : orders[o].status = "FILLED"}

\* a filled Buy of one unit, as _execute_fill would receive it in this tick
BuyFill ==
    [Order("LIMIT", "BUY", 1, feed[i], None)
        EXCEPT !.status = "FILLED", !.filled_at = i, !.filled_price = feed[i]]

\* trade_log has one entry per FILLED order, the one about to be applied
\* excepted; _execute_fill on a Buy takes filled_price * quantity from cash
\* and adds quantity to the position
LedgerMatchesFills ==
    /\ Len(trade_log) =
           Cardinality(FilledOrders) - (IF FillPending THEN 1 ELSE 0)
    /\ pc \in {"update", "fillcheck"}
       => LET l == ExecuteFill(BuyFill, cash, position_size, trade_log)
          IN  /\ l.cash = cash - feed[i] * 1
              /\ l.position_size = position_size + 1
              /\ l.trade_log = Append(trade_log, [Timestamp |-> i,
                                                  Type |-> "BUY",
                                                  Price |-> feed[i]])

\* a step of the replay applies the order that has just filled, in the tick
\* that filled it, and no step after the entry buy touches the ledger
\* otherwise
LedgerStep ==
    IF FillPending
    THEN LET o == orders[open[j]]
             sign == IF o.side = "SELL" THEN 1 ELSE -1
         IN  /\ o.filled_at = i
             /\ cash' = cash + sign * o.filled_price * o.quantity
             /\ position_size' = position_size - sign * o.quantity
             /\ trade_log' = Append(trade_log, [Timestamp |-> i,
                                                Type |-> o.side,
                                                Price |-> o.filled_price])
    ELSE pc # "start"
         => /\ cash' = cash
            /\ position_size' = position_size
            /\ trade_log' = trade_log

\* C17: in a replay every order that becomes FILLED is applied to the ledger
\* once, in the tick that filled it: a Sell adds filled_price * quantity to
\* cash and takes quantity from the position (a Buy the reverse), one entry
\* is appended to trade_log, nothing else changes the ledger, and trade_log
\* is as long as the number of FILLED orders.
C17_FillAppliedOnce == [](LedgerMatchesFills) /\ [][LedgerStep]_vars

\* C17 witness: a leg's fill has been applied; the tick goes on with one
\* trade logged and the position closed.
C17_Witness ==
    /\ pc = "update"
    /\ Len(trade_log) = 1
    /\ Cardinality(FilledOrders) = 1
    /\ position_size = 0
    /\ cash = InitialCash - feed[1] + trade_log[1].Price

\* Scenario B: entry at 100, then 102, 97, 99
ScenarioB == <<10000, 10200, 9700, 9900>>

\* the update of order o in tick t has been made
Updated(t, o) ==
    /\ pc # "start"
    /\ \/ i > t
       \/ i = t /\ j > o
       \/ i = t /\ j = o /\ pc = "fillcheck"

\* C18: replaying [100, 102, 97, 99] with the pair seeded at 105 / 98, the
\* stop-limit is PENDING until its update at tick 97, ACTIVE and unfilled from
\* there to its update at tick 99, FILLED at 99 from then on with the
\* take-profit CANCELLED by the same update; the take-profit is never FILLED.
C18_ScenarioB ==
    (feed = ScenarioB /\ pc # "start")
    => /\ orders[TP].price = 10500
       /\ orders[SL].price = 9800 /\ orders[SL].trigger_price = 9800
       /\ ~EverFilled(orders[TP])
       /\ ~Updated(3, SL)
          => orders[SL].status = "PENDING" /\ orders[TP].status = "PENDING"
       /\ (Updated(3, SL) /\ ~Updated(4, SL))
          => /\ orders[SL].status = "ACTIVE"
             /\ orders[SL].filled_at = None
             /\ orders[TP].status = "PENDING"
       /\ Updated(4, SL)
          => /\ orders[SL].status = "FILLED"
             /\ orders[SL].filled_at = 4
             /\ orders[SL].filled_price = 9900
             /\ orders[TP].status = "CANCELLED"

\* C18 witness: the update of the stop-limit at tick 99 has just filled it.
C18_Witness ==
    /\ feed = ScenarioB
    /\ pc = "fillcheck" /\ i = 4 /\ j = SL
    /\ lastOp = [op |-> "update", o |-> SL, pre |-> "ACTIVE"]
    /\ orders[SL].status = "FILLED"
    /\ orders[TP].status = "CANCELLED"

\* C19: the report's final value is cash + position_size * last price and its
\* pnl is the final value less the initial cash; for the seeded one-unit
\* position that is the fill price of the leg that filled, or the last price
\* if none did, less the first price.
C19_ReportFormula ==
    pc = "reported"
    => /\ report.final_val = cash + position_size * feed[Len(feed)]
       /\ report.pnl = report.final_val - InitialCash
       /\ report.pnl = (IF trade_log # <<>> THEN trade_log[1].Price
                        ELSE feed[Len(feed)]) - feed[1]

\* C19 witness: a report after a replay in which neither leg filled and the
\* last price differs from the first.
C19_Witness ==
    /\ pc = "reported"
    /\ trade_log = <<>>
    /\ position_size = 1
    /\ feed[Len(feed)] # feed[1]
    /\ report.pnl = feed[Len(feed)] - feed[1]

-----------------------------------------------------------------------------
(* Properties of main() *)

\* the validator call of a market, limit or stop-limit command returned False
GatedAndRejected ==
    /\ main_args.command \in Gated
    /\ val_pc = "validated"
    /\ ~val_out.ok

\* C14: in a run of the market, limit or stop-limit command whose validation
\* failed, no futures_create_order call is made and main() is over.
C14_RejectedPlacesNothing ==
    GatedAndRejected => CallsOf("create") = {} /\ main_pc = "done"

\* C14 witness: a limit command for the listed symbol was rejected by the step
\* check and main() returned without a gateway call.
C14_Witness ==
    /\ GatedAndRejected
    /\ main_args.command = "limit"
    /\ exchange_info.available
    /\ val_out.error = "Invalid quantity precision."
    /\ main_pc = "done"
    /\ gw_calls = <<>>

\* C15: every futures_create_order call of a run comes after a successful
\* validate_order_params call for the symbol and the quantity it places.
C15_EveryPlacementValidated ==
    \A k \in DOMAIN gw_calls :
        gw_calls[k].op = "create"
        => /\ val_pc = "validated"
           /\ val_out.ok
           /\ val_in.symbol = gw_calls[k].symbol
           /\ val_in.quantity = gw_calls[k].quantity

\* C16: a run whose start-up did not get the exchange info makes no
\* futures_create_order call.
C16_MissingRulesPlaceNothing ==
    (main_pc \notin {"idle", "start"} /\ ~exchange_info.available)
    => CallsOf("create") = {}

-----------------------------------------------------------------------------
(* Properties of the Order state machine over every order type *)

\* the trigger condition of an observation at price p
TriggerCondition(o, p) ==
    \/ is_buy(o) /\ p >= o.trigger_price
    \/ is_sell(o) /\ p <= o.trigger_price

\* the fill condition of an observation at price p
FillCondition(o, p) ==
    \/ is_buy(o) /\ p <= o.price
    \/ is_sell(o) /\ p >= o.price

\* C21: an update at price p of a PENDING order of a type that waits for a
\* trigger (STOP_LIMIT, TAKE_PROFIT_MARKET, STOP_MARKET) activates the order
\* exactly when the trigger condition holds at p; otherwise it stays PENDING.
C21_TriggerActivates ==
    [][ \A o \in DOMAIN orders, t \in TimeSet, p \in PoolPrices :
          ( /\ OrderUpdate(o, t, p)
            /\ orders[o].status = "PENDING"
            /\ orders[o].order_type \in TriggerKinds
            /\ orders[o].trigger_price # None )
          => IF TriggerCondition(orders[o], p)
             THEN orders'[o].status \in {"ACTIVE", "FILLED"}
             ELSE orders'[o].status = "PENDING" ]_vars

\* C22: an update at (t, p) of an order that carries a limit price and is
\* fill-eligible (ACTIVE once the update's trigger step has run, or of a type
\* without trigger) fills it exactly when the fill condition holds at p, with
\* filled_at = t and filled_price = p; an order that is not fill-eligible is
\* not filled by an update.
C22_FillIffCondition ==
    [][ \A o \in DOMAIN orders, t \in TimeSet, p \in PoolPrices :
          ( /\ OrderUpdate(o, t, p)
            /\ ~is_done(orders[o]) )
          => LET ord == orders[o]
                 activates == /\ ord.status = "PENDING"
                              /\ ord.order_type \in TriggerKinds
                              /\ ord.trigger_price # None
                              /\ TriggerCondition(ord, p)
                 eligible == \/ ord.status = "ACTIVE"
                             \/ activates
                             \/ ord.order_type \notin TriggerKinds
             IN  IF eligible /\ ord.price # None
                 THEN IF FillCondition(ord, p)
                      THEN /\ orders'[o].status = "FILLED"
                           /\ orders'[o].filled_at = t
                           /\ orders'[o].filled_price = p
                      ELSE orders'[o].status # "FILLED"
                 ELSE orders'[o].status # "FILLED" ]_vars

\* C23: a LIMIT order never has status ACTIVE, and every change of its status
\* is PENDING to FILLED or PENDING to CANCELLED.
C23_LimitNeverActive ==
    /\ [](\A o \in DOMAIN orders :
            orders[o].order_type = "LIMIT" => orders[o].status # "ACTIVE")
    /\ [][ \A o \in DOMAIN orders :
              (orders[o].order_type = "LIMIT"
               /\ orders'[o].status # orders[o].status)
              => /\ orders[o].status = "PENDING"
                 /\ orders'[o].status \in {"FILLED", "CANCELLED"} ]_vars

\* the status changes of PENDING -> ACTIVE -> FILLED, with CANCELLED reachable
\* from PENDING and from ACTIVE
Forward ==
    { <<"PENDING", "ACTIVE">>, <<"PENDING", "FILLED">>, <<"ACTIVE", "FILLED">>,
      <<"PENDING", "CANCELLED">>, <<"ACTIVE", "CANCELLED">> }

\* C24: the status of an order only moves forward: every change of status is
\* one of Forward, so an ACTIVE order stays ACTIVE until it is FILLED or
\* CANCELLED, whatever prices it is updated with.
C24_StatusMovesForward ==
    [][ \A o \in DOMAIN orders :
          orders'[o].status # orders[o].status
          => <<orders[o].status, orders'[o].status>> \in Forward ]_vars

-----------------------------------------------------------------------------
(* Properties of the replay loop *)

\* the take-profit leg and the stop-loss leg of the seeded pair
TpLeg == CHOOSE o \in DOMAIN orders : orders[o].order_type = "LIMIT"
SlLeg == CHOOSE o \in DOMAIN orders : orders[o].order_type = "STOP_LIMIT"

\* tick i is about to observe its first order, both legs are open, and each
\* leg would be filled by an update at the tick's price
BothWouldFill ==
    /\ pc = "update"
    /\ j = 1
    /\ Len(open) = 2
    /\ orders[TpLeg].status = "PENDING"
    /\ FillCondition(orders[TpLeg], feed[i])
    /\ orders[SlLeg].status = "ACTIVE"
    /\ FillCondition(orders[SlLeg], feed[i])

\* C25: ticks are taken in feed order and the open orders of a tick in the
\* order of the open list; when both legs of the pair would be filled at the
\* tick's price, the first update of the tick fills the take-profit leg,
\* which was appended first, and cancels the stop-loss leg.
C25_FirstInsertedWins ==
    /\ [][ i' \in {i, i + 1} /\ (i' = i => j' \in {j, j + 1}) ]_vars
    /\ [][ (pc = "update" /\ pc' = "fillcheck") => lastOp'.o = open[j] ]_vars
    /\ [][ BothWouldFill
            => /\ lastOp'.o = TpLeg
               /\ orders'[TpLeg].status = "FILLED"
               /\ orders'[SlLeg].status = "CANCELLED" ]_vars

\* C25 witness: the stop-loss leg was activated at an earlier tick, the
\* current tick's price satisfies both fill conditions, and the tick's first
\* update filled the take-profit leg and cancelled the stop-loss leg.
C25_Witness ==
    /\ pc = "fillcheck"
    /\ j = 1
    /\ lastOp = [op |-> "update", o |-> TpLeg, pre |-> "PENDING"]
    /\ orders[TpLeg].status = "FILLED"
    /\ orders[TpLeg].filled_at = i
    /\ orders[SlLeg].status = "CANCELLED"
    /\ \E k \in 1..(i - 1) : feed[k] <= orders[SlLeg].trigger_price
    /\ FillCondition(orders[SlLeg], feed[i])

\* Backtester.cash, position_size and trade_log
ledger == <<cash, position_size, trade_log>>

\* C26: the ledger changes only when run() applies an order FILLED in the
\* current tick: while no order is FILLED the ledger is the one the entry buy
\* left, whatever was activated; every step that changes the ledger is the
\* fill check of an order filled in this tick; the fill check of a CANCELLED
\* order and the update that cancels an order leave the ledger alone.
C26_LedgerOnlyAtFill ==
    /\ []( (pc # "start" /\ FilledOrders = {})
           => /\ cash = InitialCash - feed[1]
              /\ position_size = 1
              /\ trade_log = <<>> )
    /\ [][ (pc # "start" /\ ledger' # ledger)
            => /\ pc = "fillcheck"
               /\ orders[open[j]].status = "FILLED"
               /\ orders[open[j]].filled_at = i ]_vars
    /\ [][ (\E o \in DOMAIN orders :
               orders'[o].status = "CANCELLED"
               /\ (orders[o].status # "CANCELLED" \/ lastOp'.o = o
                   \/ (pc = "fillcheck" /\ open[j] = o)))
            => ledger' = ledger ]_vars

\* C26 witness: the stop-loss leg was activated at an earlier tick, cancelled
\* by the take-profit's fill in this tick, then updated and fill-checked
\* while CANCELLED; the ledger holds the entry buy and the one sale.
C26_Witness ==
    /\ pc = "update"
    /\ j = 3
    /\ lastOp = [op |-> "update", o |-> SL, pre |-> "CANCELLED"]
    /\ orders[SL].status = "CANCELLED"
    /\ \E k \in 1..(i - 1) : feed[k] <= orders[SL].trigger_price
    /\ trade_log = <<[Timestamp |-> i, Type |-> "SELL", Price |-> feed[i]]>>
    /\ cash = InitialCash - feed[1] + feed[i]
    /\ position_size = 0

\* the position of id o in the list ids
Pos(ids, o) == CHOOSE k \in DOMAIN ids : ids[k] = o

\* the ids in the list ids
Ids(ids) == {ids[k] : k \in DOMAIN ids}

\* C27: when a tick after the first starts, no order in the open list is
\* FILLED or CANCELLED; the end of a tick keeps exactly the orders of the open
\* list that are not done, each once and in the order they had.
C27_OpenHasNoTerminal ==
    /\ []( (pc = "update" /\ j = 1 /\ i > 1)
           => \A k \in DOMAIN open : ~is_done(orders[open[k]]) )
    /\ [][ (pc = "update" /\ j > Len(open))
            => /\ Ids(open') = {o \in Ids(open) : ~is_done(orders[o])}
               /\ Len(open') = Cardinality(Ids(open'))
               /\ \A a, b \in DOMAIN open' :
                     a < b => Pos(open, open'[a]) < Pos(open, open'[b]) ]_vars

\* C27 witness: a tick after the first starts with an empty open list, the
\* pair having been filled and cancelled in the tick before.
C27_Witness ==
    /\ pc = "update"
    /\ j = 1
    /\ i > 1
    /\ open = <<>>
    /\ orders[TP].status = "FILLED"
    /\ orders[TP].filled_at = i - 1
    /\ orders[SL].status = "CANCELLED"

-----------------------------------------------------------------------------
(* Properties of the Order constructor and of link_oco_peer *)

\* C28: Order(...) for a LIMIT or STOP_LIMIT without price, or for a
\* STOP_LIMIT, TAKE_PROFIT_MARKET or STOP_MARKET without trigger_price, raises
\* and yields no order; an order the constructor yields is PENDING with no
\* peer, created_at, filled_at or filled_price.
C28_ConstructionEnforcesInvariants ==
    /\ LET order_type == upper(ctor.args.order_type)
           MissingRequired ==
               \/ order_type \in {"LIMIT", "STOP_LIMIT"}
                  /\ ctor.args.price = None
               \/ order_type \in TriggerKinds
                  /\ ctor.args.trigger_price = None
       IN  (ctor.called /\ MissingRequired) => (ctor.raised /\ orders = <<>>)
    /\ (ctor.called /\ ~ctor.raised /\ lastOp.op = "init")
       => /\ orders[1].status = "PENDING"
          /\ orders[1].oco_peer = None
          /\ orders[1].created_at = None
          /\ orders[1].filled_at = None
          /\ orders[1].filled_price = None

-----------------------------------------------------------------------------
(* Properties of place_simulated_oco_order under every failure of leg B *)

\* C29: the call never ends, by returning or by an exception that leaves it,
\* with leg A live at the exchange and leg B not placed unless a cancel of
\* leg A was sent, however leg B's placement failed.
C29_NoOrphanWithoutCancel ==
    LET LegBFailedAnyWay == /\ Len(gw_calls) >= 2
                            /\ gw_calls[1].outcome = "ok"
                            /\ gw_calls[2].op = "create"
                            /\ gw_calls[2].outcome # "ok"
    IN
    (OcoEnded /\ LegBFailedAnyWay /\ gw_calls[1].orderId \in gw_live)
    => \E k \in CallsOf("cancel") : gw_calls[k].orderId = gw_calls[1].orderId

\* C30: after any sequence of link_oco_peer calls the peer references are
\* symmetric: an order x whose peer is y is the peer of y, so the order a
\* fill of x cancels is the order whose fill cancels x.
C30_PeerSymmetric ==
    \A x \in DOMAIN orders :
        orders[x].oco_peer # None => orders[orders[x].oco_peer].oco_peer = x

\* C31: fill called on a CANCELLED order changes nothing: the order stays
\* CANCELLED, its filled_at and filled_price stay None, and its peer keeps
\* its status.
C31_FillOnCancelledIsNoOp ==
    [][ (lastOp'.op = "fill" /\ lastOp'.pre = "CANCELLED")
        => orders' = orders ]_vars

-----------------------------------------------------------------------------
(* Properties of the seeded replay's position and trades *)

\* C32: from the entry buy on, position_size is 0 or 1, trade_log has at most
\* one entry and position_size = 1 - Len(trade_log); in every tick after the
\* one that logged the trade, and when the replay has ended, the open list
\* is empty.
C32_OneUnitOneTrade ==
    pc # "start"
    => /\ position_size \in {0, 1}
       /\ Len(trade_log) <= 1
       /\ position_size = 1 - Len(trade_log)
       /\ (Len(trade_log) = 1
           /\ (i > trade_log[1].Timestamp \/ pc \in {"finished", "reported"}))
          => open = <<>>

\* C32 witness: two ticks after the one that logged the trade, the position is
\* closed and the open list is empty.
C32_Witness ==
    /\ pc = "update"
    /\ j = 1
    /\ Len(trade_log) = 1
    /\ i = trade_log[1].Timestamp + 2
    /\ position_size = 0
    /\ open = <<>>

\* the ticks whose price is at or below the stop trigger of the seeded pair
FallTicks == {k \in DOMAIN feed : feed[k] <= SlPrice(feed[1])}

\* the first of them
FirstFall == CHOOSE k \in FallTicks : \A m \in FallTicks : k <= m

\* every trade_log entry is a Sell at a price not below the stop-loss limit
TradesAtOrAboveStop ==
    \A k \in DOMAIN trade_log :
        /\ trade_log[k].Type = "SELL"
        /\ trade_log[k].Price >= SlPrice(feed[1])

\* the replay has ended with no fill: both legs unfilled, the position open
NothingFilled ==
    /\ FilledOrders = {}
    /\ trade_log = <<>>
    /\ position_size = 1

\* the feed stays under the take-profit price until it falls to or below the
\* stop trigger, and every price after that tick is below the stop limit
FallsAndStaysBelowAfter ==
    /\ FallTicks # {}
    /\ \A m \in DOMAIN feed :
          /\ m < FirstFall => feed[m] < TpPrice(feed[1])
          /\ m > FirstFall => feed[m] < SlPrice(feed[1])

\* the same, the price of the falling tick itself being below the stop limit
FallsBelowAndStaysBelow ==
    /\ FallsAndStaysBelowAfter
    /\ feed[FirstFall] < SlPrice(feed[1])

\* C33 (as claimed): every trade is a Sell at a price >= the stop-loss limit,
\* and a replay whose feed falls to or below the stop trigger and is below
\* the stop limit at every later tick ends with neither leg filled and the
\* position open at 1.
C33_FallToOrBelowNeverFills ==
    pc # "start"
    => /\ TradesAtOrAboveStop
       /\ (pc \in {"finished", "reported"} /\ FallsAndStaysBelowAfter)
          => NothingFilled

\* C33 (amended): every trade is a Sell at a price >= the stop-loss limit,
\* and a replay whose feed falls below the stop trigger and is below the stop
\* limit at the falling tick and at every later tick ends with neither leg
\* filled and the position open at 1; the stop-loss leg is then ACTIVE.
C33_FallBelowNeverFills ==
    pc # "start"
    => /\ TradesAtOrAboveStop
       /\ (pc \in {"finished", "reported"} /\ FallsBelowAndStaysBelow)
          => (NothingFilled /\ orders[SL].status = "ACTIVE"
                           /\ orders[TP].status = "PENDING")

\* C33 witness: the feed fell below the stop trigger, rose again without
\* reaching the stop limit, and the replay ended with the stop-loss leg
\* ACTIVE, nothing filled and the position open.
C33_Witness ==
    /\ pc = "finished"
    /\ FallsBelowAndStaysBelow
    /\ FirstFall < Len(feed)
    /\ feed[Len(feed)] > feed[FirstFall]
    /\ orders[SL].status = "ACTIVE"
    /\ NothingFilled

=============================================================================
